---- MODULE Spec2Model ----
(***************************************************************************)
(* CCX Marketplace API: the purchase flow, the SQLite persistence layer    *)
(* and the role-scoped views of src/marketplace_api.                       *)
(*                                                                         *)
(* Request handlers are plain `def` routes, so the framework runs them in  *)
(* a thread pool: several purchase handlers can be in flight at once.      *)
(* Every Database method opens its own connection; the only shared state   *)
(* is the committed content of the two tables.  A connection that has      *)
(* executed a write statement holds SQLite's write lock and a private      *)
(* working copy (txn) until COMMIT or ROLLBACK.                            *)
(*                                                                         *)
(* While a COMMIT waits for open readers it holds the PENDING lock: new     *)
(* readers are refused and, after the busy timeout, raise "database is     *)
(* locked", which no read path of main.py catches.                         *)
(*                                                                         *)
(* resp is the HTTP response written by the last step.  Every database     *)
(* call of a handler is a step of its own.  uuid4 values are taken to be   *)
(* distinct and SHA-256 to be injective; the wall clock is read afresh by  *)
(* every handler and is not tied to the order of the commits.              *)
(***************************************************************************)
EXTENDS Integers, Sequences, FiniteSets, TLC

\* ---------------------------------------------------------------- bounds
NumRequests == 2
MaxQuantity == 2

\* the purchase requests, each handled once by a thread of the pool
Requests == 1..NumRequests
\* TransactionRequest.quantity is any int: negative, zero or positive
Quantities == (-1)..MaxQuantity

\* ------------------------------------------------------- text conversion
Digit(d) ==
  CASE d = 0 -> "0" [] d = 1 -> "1" [] d = 2 -> "2" [] d = 3 -> "3"
    [] d = 4 -> "4" [] d = 5 -> "5" [] d = 6 -> "6" [] d = 7 -> "7"
    [] d = 8 -> "8" [] d = 9 -> "9"

RECURSIVE NatStr(_)
NatStr(n) == IF n < 10 THEN Digit(n) ELSE NatStr(n \div 10) \o Digit(n % 10)

\* str(int) as used by the f-string: decimal digits, '-' for negatives
DecimalStr(n) == IF n < 0 THEN "-" \o NatStr(-n) ELSE NatStr(n)

\* str(uuid.uuid4()) in the handler of request n; uuid4 values are taken to
\* be pairwise distinct
UuidStr(n) == "uuid-" \o DecimalStr(n)

\* datetime.now().isoformat(): the values a handler can read.  Handlers
\* read the clock before they write, so the dates of the ledger follow the
\* order of the reads, not of the commits: any handler can get any value
Dates == { "2024-01-01T00:00:00", "2024-01-01T00:00:00.000250" }

\* hashlib.sha256(...).hexdigest(): a collision-free function of its input
Sha256Hex(s) == "sha256(" \o s \o ")"

\* ------------------------------------------------------------ inputs
Tokens == { "demo_public_token", "demo_buyer_token", "demo_admin_token",
            "not_a_token" }

\* a credit_id whose interpolation into the lookup query turns the WHERE
\* clause into  id = '' OR '1'='1'
TautologyId == "' OR '1'='1"

\* the credit_id values of purchase requests: a listing, an unknown id, and
\* the quote-bearing id
CreditIdInputs == { "c1", "zz", TautologyId }

\* ------------------------------------------------------------ catalog
\* the rows init_sample_data loads into carbon_credits, in insertion (rowid)
\* order: one listing with stock left and one that is sold out
CatalogOrder == << "c1", "c2" >>

CatalogIds == { CatalogOrder[i] : i \in 1..Len(CatalogOrder) }

InitialCatalog ==
  [ id \in CatalogIds |->
      IF id = "c1"
      THEN [ id |-> "c1", credit_type |-> "Direct Air Capture",
             quantity_available |-> 1, price_per_ton |-> 10 ]
      ELSE [ id |-> "c2", credit_type |-> "Biochar",
             quantity_available |-> 0, price_per_ton |-> 25 ] ]

VARIABLES credits, ledger, txn, pc, local, view, resp

\* credits, ledger: the committed rows of carbon_credits and transactions
\* txn: the open write transaction, << >> when there is none
\* pc, local: position and local variables of each purchase handler
\* view: the rows read by a public GET /api/transactions handler that has
\*       not yet read the catalog, << >> when there is no such handler
vars == << credits, ledger, txn, pc, local, view, resp >>

\* ------------------------------------------------------------ main.py
BUYER_PERMISSIONS == { "buyer", "admin" }

\* <<>> stands for the raised HTTPException(401)
verify_token(token) ==
  IF token = "demo_public_token"
  THEN << [ user_type |-> "public", user_id |-> "public_user" ] >>
  ELSE IF token = "demo_buyer_token"
  THEN << [ user_type |-> "buyer", user_id |-> "buyer_001" ] >>
  ELSE IF token = "demo_admin_token"
  THEN << [ user_type |-> "admin", user_id |-> "admin_001" ] >>
  ELSE << >>

\* the digest input with buyer_id and credit_id swapped
CreateTransactionHashSwapped(transaction_data) ==
  Sha256Hex(transaction_data.buyer_id \o transaction_data.credit_id
            \o DecimalStr(transaction_data.quantity)
            \o transaction_data.transaction_date)

create_transaction_hash(transaction_data) ==
  Sha256Hex(transaction_data.credit_id \o transaction_data.buyer_id
            \o DecimalStr(transaction_data.quantity)
            \o transaction_data.transaction_date)

\* ------------------------------------------------------------ database.py
\* WHERE id = '{credit_id}' is built by string interpolation: an input free
\* of quotes compares the id column with it, TautologyId selects every row
InterpolatedWhere(row, credit_id) ==
  IF credit_id = TautologyId THEN TRUE ELSE row.id = credit_id

\* SELECT * FROM carbon_credits, in rowid order
get_credits(cr) == [ i \in 1..Len(CatalogOrder) |-> cr[CatalogOrder[i]] ]

\* fetchone() of the interpolated query; <<>> stands for None
get_credit_by_id(cr, credit_id) ==
  LET rows == SelectSeq(get_credits(cr),
                        LAMBDA row : InterpolatedWhere(row, credit_id))
  IN  IF rows = << >> THEN << >> ELSE << rows[1] >>

RECURSIVE SumAvailable(_)
SumAvailable(rows) ==
  IF rows = << >> THEN 0
  ELSE Head(rows).quantity_available + SumAvailable(Tail(rows))

\* SELECT SUM(quantity_available); 0 when the table is empty
get_total_available_amount(cr) ==
  IF get_credits(cr) = << >> THEN 0 ELSE SumAvailable(get_credits(cr))

\* get_transactions without the WHERE buyer_id = ? branch
GetTransactionsUnfiltered(tbl, buyer_id) == tbl

\* buyer_id is <<>> for None; `if buyer_id:` is false for None and for ""
get_transactions(tbl, buyer_id) ==
  IF buyer_id # << >> /\ buyer_id[1] # ""
  THEN SelectSeq(tbl, LAMBDA t : t.buyer_id = buyer_id[1])
  ELSE tbl

\* an INSERT OR REPLACE that rewrites the table
SqlInsertReplacing(tbl, row) == << << row >> >>

\* INSERT INTO transactions: id is the PRIMARY KEY; the foreign key on
\* credit_id is declared but SQLite does not enforce it on this connection
\* <<>> stands for the raised IntegrityError, << t >> for the new table t
SqlInsertTransaction(tbl, row) ==
  IF \E i \in 1..Len(tbl) : tbl[i].id = row.id
  THEN << >>
  ELSE << Append(tbl, row) >>

\* the UPDATE without its WHERE clause
SqlUpdateEveryRow(cr, quantity, credit_id) ==
  [ id \in DOMAIN cr |->
      [ cr[id] EXCEPT !.quantity_available = @ - quantity ] ]

\* UPDATE carbon_credits SET quantity_available = quantity_available - ?
\* WHERE id = ?   (bound parameters; the stored value is not re-validated)
SqlUpdateQuantity(cr, quantity, credit_id) ==
  [ id \in DOMAIN cr |->
      IF id = credit_id
      THEN [ cr[id] EXCEPT !.quantity_available = @ - quantity ]
      ELSE cr[id] ]

\* CreditTransaction(**transaction): the eight declared fields
CreditTransaction(t) ==
  [ id |-> t.id, credit_id |-> t.credit_id, buyer_id |-> t.buyer_id,
    quantity |-> t.quantity, price_per_ton |-> t.price_per_ton,
    transaction_date |-> t.transaction_date, status |-> t.status,
    transaction_hash |-> t.transaction_hash ]

\* ------------------------------------------------------------ state
\* resp is the HTTP response written by the last step; NoResp when that
\* step returned nothing to a caller
NoResp == [ op |-> "none", status |-> 0 ]

\* the framework's answer to an exception that the handler does not catch
ServerError(op) ==
  [ op |-> op, status |-> 500, body |-> "Internal Server Error" ]

\* a COMMIT is under way.  It holds the PENDING lock while it waits for the
\* readers that are open; a connection that starts a read meanwhile is
\* refused and, at the busy timeout, raises "database is locked"
CommitPending(p) == \E r \in Requests : p[r] = "commit"

Init ==
  /\ credits = InitialCatalog
  /\ ledger = << >>
  /\ txn = << >>
  /\ pc = [ r \in Requests |-> "new" ]
  /\ local = [ r \in Requests |-> << >> ]
  /\ view = << >>
  /\ resp = NoResp

\* the quantity test, off by one
InsufficientQuantityOffByOne(credit, quantity) ==
  credit.quantity_available + 1 < quantity

\* the `credit["quantity_available"] < request.quantity` test
InsufficientQuantity(credit, quantity) ==
  credit.quantity_available < quantity

\* a role test that lets every recognized caller through
MayPurchaseAnyRole(user_type) == TRUE

\* the `user["user_type"] not in BUYER_PERMISSIONS` test, negated
MayPurchase(user_type) == user_type \in BUYER_PERMISSIONS

\* the status purchase_credits raises before it builds the transaction,
\* 0 when it raises none: verify_token, role, lookup, quantity, in order
ValidateStatus(token, credit_id, quantity, cr) ==
  LET user   == verify_token(token)
      credit == get_credit_by_id(cr, credit_id)
  IN  IF user = << >> THEN 401
      ELSE IF ~ MayPurchase(user[1].user_type) THEN 403
      ELSE IF credit = << >> THEN 404
      ELSE IF InsufficientQuantity(credit[1], quantity) THEN 400
      ELSE 0

\* the statuses the handler can answer before it builds the transaction:
\* once the caller may purchase, the lookup is a read that can be refused,
\* and its exception leaves the handler uncaught (500)
ValidateStatuses(token, credit_id, quantity, cr, locked) ==
  LET status == ValidateStatus(token, credit_id, quantity, cr)
  IN  IF locked /\ status \notin { 401, 403 }
      THEN { status, 500 }
      ELSE { status }

ErrorDetail(status) ==
  CASE status = 401 -> "Invalid authentication credentials"
    [] status = 403 -> "Only buyers or admin can make purchases"
    [] status = 404 -> "Credit not found"
    [] status = 400 -> "Insufficient quantity available"
    [] status = 500 -> "Transaction failed"

\* the transaction dict built by purchase_credits, digest included
BuildTransaction(credit_id, user, quantity, credit, uuid, now) ==
  LET t == [ id |-> uuid, credit_id |-> credit_id,
             buyer_id |-> user.user_id, quantity |-> quantity,
             price_per_ton |-> credit.price_per_ton,
             transaction_date |-> now, status |-> "completed" ]
  IN  [ id |-> t.id, credit_id |-> t.credit_id, buyer_id |-> t.buyer_id,
        quantity |-> t.quantity, price_per_ton |-> t.price_per_ton,
        transaction_date |-> t.transaction_date, status |-> t.status,
        transaction_hash |-> create_transaction_hash(t) ]

\* purchase_credits up to the call of db.purchase_credit or to the raised
\* HTTPException: one read of the catalog, one of the clock, then local
\* computation
PurchaseValidate(r, token, credit_id, quantity, now) ==
  /\ pc[r] = "new"
  \* requests are numbered in the order in which their handlers start
  /\ \A q \in Requests : q < r => pc[q] # "new"
  /\ LET status == ValidateStatus(token, credit_id, quantity, credits)
         user   == verify_token(token)[1]
         credit == get_credit_by_id(credits, credit_id)[1]
     IN  IF status # 0
         THEN /\ resp' = [ op |-> "purchase", status |-> status,
                           body |-> [ detail |-> ErrorDetail(status) ] ]
              /\ pc' = [ pc EXCEPT ![r] = "done" ]
              /\ UNCHANGED local
         ELSE /\ resp' = NoResp
              /\ pc' = [ pc EXCEPT ![r] = "insert" ]
              /\ local' = [ local EXCEPT ![r] =
                   << [ request |-> [ credit_id |-> credit_id,
                                      quantity |-> quantity ],
                        user |-> user,
                        credit |-> credit,
                        transaction |-> BuildTransaction(credit_id, user,
                                          quantity, credit, UuidStr(r),
                                          now) ] >> ]
  /\ UNCHANGED << credits, ledger, txn, view >>

\* purchase_credits when db.get_credit_by_id raises "database is locked":
\* the exception is not caught, nothing was written
PurchaseLookupLocked(r, token, credit_id, quantity) ==
  /\ pc[r] = "new"
  /\ \A q \in Requests : q < r => pc[q] # "new"
  /\ 500 \in ValidateStatuses(token, credit_id, quantity, credits,
                              CommitPending(pc))
  /\ resp' = ServerError("purchase")
  /\ pc' = [ pc EXCEPT ![r] = "done" ]
  /\ UNCHANGED << credits, ledger, txn, local, view >>

\* the response of purchase_credits after db.purchase_credit returned
Finish(r, success) ==
  LET l == local[r][1]
  IN  /\ pc' = [ pc EXCEPT ![r] = "done" ]
      /\ local' = [ local EXCEPT ![r] = << >> ]
      /\ resp' = IF success
                 THEN [ op |-> "purchase", status |-> 200,
                        body |-> [ transaction_id |-> l.transaction.id,
                          transaction_hash |-> l.transaction.transaction_hash,
                          total_cost |-> l.request.quantity
                                           * l.credit.price_per_ton,
                          status |-> "completed" ] ]
                 ELSE [ op |-> "purchase", status |-> 500,
                        body |-> [ detail |-> ErrorDetail(500) ] ]

\* purchase_credit: the INSERT statement.  It opens the transaction and
\* takes the write lock; a duplicate id raises, which rolls back.
Insert(r) ==
  /\ pc[r] = "insert"
  /\ txn = << >>
  /\ LET row     == CreditTransaction(local[r][1].transaction)
         working == SqlInsertTransaction(ledger, row)
     IN  IF working = << >>
         THEN /\ Finish(r, FALSE)
              /\ UNCHANGED << credits, ledger, txn, view >>
         ELSE /\ txn' = << [ owner |-> r, ledger |-> working[1],
                             credits |-> credits ] >>
              /\ pc' = [ pc EXCEPT ![r] = "update" ]
              /\ resp' = NoResp
              /\ UNCHANGED << credits, ledger, local, view >>

\* purchase_credit: the INSERT statement while another connection holds the
\* write lock and the busy timeout expires ("database is locked")
InsertBusy(r) ==
  /\ pc[r] = "insert"
  /\ txn # << >>
  /\ Finish(r, FALSE)
  /\ UNCHANGED << credits, ledger, txn, view >>

\* purchase_credit: the UPDATE statement, inside the open transaction
Update(r) ==
  /\ pc[r] = "update"
  /\ txn # << >> /\ txn[1].owner = r
  /\ LET row == CreditTransaction(local[r][1].transaction)
     IN  txn' = << [ txn[1] EXCEPT !.credits =
                      SqlUpdateQuantity(@, row.quantity, row.credit_id) ] >>
  /\ pc' = [ pc EXCEPT ![r] = "commit" ]
  /\ resp' = NoResp
  /\ UNCHANGED << credits, ledger, local, view >>

\* purchase_credit: conn.commit() publishes the working copy; return True
Commit(r) ==
  /\ pc[r] = "commit"
  /\ txn # << >> /\ txn[1].owner = r
  /\ ledger' = txn[1].ledger
  /\ credits' = txn[1].credits
  /\ txn' = << >>
  /\ Finish(r, TRUE)
  /\ UNCHANGED view

\* purchase_credit: the UPDATE or the COMMIT raises (I/O error, disk full,
\* "database is locked" when readers outlast the busy timeout); the except
\* branch rolls back and returns False
StorageFault(r) ==
  /\ pc[r] \in { "update", "commit" }
  /\ txn # << >> /\ txn[1].owner = r
  /\ txn' = << >>
  /\ Finish(r, FALSE)
  /\ UNCHANGED << credits, ledger, view >>

\* GET /api/credits/available_amount/
TotalAvailableAmount ==
  /\ resp' = [ op |-> "available_amount", status |-> 200,
               body |-> [ total_available_amount |->
                            get_total_available_amount(credits) ] ]
  /\ UNCHANGED << credits, ledger, txn, pc, local, view >>

\* GET /api/credits/available_amount/ when the read is refused
TotalAvailableAmountLocked ==
  /\ CommitPending(pc)
  /\ resp' = ServerError("available_amount")
  /\ UNCHANGED << credits, ledger, txn, pc, local, view >>

\* credit_lookup.get(credit_id, {}).get("credit_type", "Unknown")
CreditTypeOf(cr, credit_id) ==
  LET rows == SelectSeq(get_credits(cr), LAMBDA c : c.id = credit_id)
  IN  IF rows = << >> THEN "Unknown" ELSE rows[Len(rows)].credit_type

\* the anonymized entry of the public view
PublicEntry(cr, t) ==
  [ transaction_date |-> t.transaction_date,
    credit_type |-> CreditTypeOf(cr, t.credit_id),
    quantity |-> t.quantity,
    price_per_ton |-> t.price_per_ton ]

\* GET /api/transactions up to the end of db.get_transactions.  The admin
\* and buyer branches return the rows; the public branch keeps them and
\* goes on to read the catalog.
GetTransactionsRoute(token) ==
  /\ LET user == verify_token(token)
     IN  IF user = << >>
         THEN /\ resp' = [ op |-> "transactions", status |-> 401,
                           token |-> token, body |-> << >> ]
              /\ UNCHANGED view
         ELSE IF user[1].user_type = "admin"
         THEN /\ resp' = [ op |-> "transactions", status |-> 200,
                           token |-> token,
                           body |-> get_transactions(ledger, << >>) ]
              /\ UNCHANGED view
         ELSE IF user[1].user_type = "buyer"
         THEN /\ resp' = [ op |-> "transactions", status |-> 200,
                           token |-> token,
                           body |-> get_transactions(ledger,
                                                     << user[1].user_id >>) ]
              /\ UNCHANGED view
         ELSE /\ view = << >>
              /\ view' = << [ token |-> token,
                              transactions |->
                                get_transactions(ledger, << >>) ] >>
              /\ resp' = NoResp
  /\ UNCHANGED << credits, ledger, txn, pc, local >>

\* GET /api/transactions when db.get_transactions is refused
GetTransactionsLocked(token) ==
  /\ CommitPending(pc)
  /\ verify_token(token) # << >>
  /\ verify_token(token)[1].user_type \notin BUYER_PERMISSIONS => view = << >>
  /\ resp' = ServerError("transactions")
  /\ UNCHANGED << credits, ledger, txn, pc, local, view >>

\* the public branch from db.get_credits to the returned list: the catalog
\* is read on a connection of its own, after the ledger
PublicTransactions ==
  /\ view # << >>
  /\ resp' = [ op |-> "transactions", status |-> 200,
               token |-> view[1].token,
               body |-> [ i \in 1..Len(view[1].transactions) |->
                            PublicEntry(credits, view[1].transactions[i]) ] ]
  /\ view' = << >>
  /\ UNCHANGED << credits, ledger, txn, pc, local >>

\* the public branch when db.get_credits is refused
PublicTransactionsLocked ==
  /\ view # << >>
  /\ CommitPending(pc)
  /\ resp' = ServerError("transactions")
  /\ view' = << >>
  /\ UNCHANGED << credits, ledger, txn, pc, local >>

\* the purchase flow, on every input
Next ==
  \/ \E r \in Requests, token \in Tokens, credit_id \in CreditIdInputs,
        quantity \in Quantities, now \in Dates :
       PurchaseValidate(r, token, credit_id, quantity, now)
  \/ \E r \in Requests, token \in Tokens, credit_id \in CreditIdInputs,
        quantity \in Quantities :
       PurchaseLookupLocked(r, token, credit_id, quantity)
  \/ \E r \in Requests : Insert(r)
  \/ \E r \in Requests : InsertBusy(r)
  \/ \E r \in Requests : Update(r)
  \/ \E r \in Requests : Commit(r)
  \/ \E r \in Requests : StorageFault(r)

Spec == Init /\ [][Next]_vars

\* the purchases that fill the ledger under the read routes: every caller,
\* every clock value, a listing of the catalog and an id outside it, one ton
HistoryCreditIds == { "c1", TautologyId }

HistoryQuantities == { 1 }

\* the read routes, concurrent with purchases
NextHistory ==
  \/ \E r \in Requests, token \in Tokens, credit_id \in HistoryCreditIds,
        quantity \in HistoryQuantities, now \in Dates :
       PurchaseValidate(r, token, credit_id, quantity, now)
  \/ \E r \in Requests, token \in Tokens, credit_id \in HistoryCreditIds,
        quantity \in HistoryQuantities :
       PurchaseLookupLocked(r, token, credit_id, quantity)
  \/ \E r \in Requests : Insert(r)
  \/ \E r \in Requests : InsertBusy(r)
  \/ \E r \in Requests : Update(r)
  \/ \E r \in Requests : Commit(r)
  \/ \E r \in Requests : StorageFault(r)
  \/ TotalAvailableAmount
  \/ TotalAvailableAmountLocked
  \/ \E token \in Tokens : GetTransactionsRoute(token)
  \/ \E token \in Tokens : GetTransactionsLocked(token)
  \/ PublicTransactions
  \/ PublicTransactionsLocked

SpecHistory == Init /\ [][NextHistory]_vars

\* ====================================================================
\* Properties
\* ====================================================================
WritePhases == { "insert", "update", "commit" }

\* request r gets its response in this step, after db.purchase_credit
Completes(r) == pc[r] \in WritePhases /\ pc'[r] = "done"

\* the quantities recorded against listing c
RECURSIVE SumFor(_, _)
SumFor(rows, c) ==
  IF rows = << >> THEN 0
  ELSE (IF Head(rows).credit_id = c THEN Head(rows).quantity ELSE 0)
         + SumFor(Tail(rows), c)

\* all the quantities recorded
RECURSIVE SumQuantity(_)
SumQuantity(rows) ==
  IF rows = << >> THEN 0 ELSE Head(rows).quantity + SumQuantity(Tail(rows))

\* cr2 is cr1 with listing c decremented by q and nothing else changed
DecrementedBy(cr1, cr2, c, q) ==
  /\ c \in DOMAIN cr1
  /\ cr2 = [ cr1 EXCEPT ![c].quantity_available = @ - q ]

\* C1: every change of the committed tables is one whole purchase -- a record
\* appended and the quantity_available of the listing it names decremented
\* by the recorded quantity -- and a purchase answered 500 changes neither.
C1_WriteAllOrNothing ==
  [][ /\ (ledger' # ledger \/ credits' # credits) =>
           /\ Len(ledger') = Len(ledger) + 1
           /\ SubSeq(ledger', 1, Len(ledger)) = ledger
           /\ DecrementedBy(credits, credits',
                            ledger'[Len(ledger')].credit_id,
                            ledger'[Len(ledger')].quantity)
      /\ (resp'.op = "purchase" /\ resp'.status = 500) =>
           UNCHANGED << ledger, credits >> ]_vars

\* C2: no listing is oversold: quantity_available >= 0 in every reachable
\* state, whatever the interleaving of the purchase requests.
C2_NeverOversold ==
  \A c \in DOMAIN credits : credits[c].quantity_available >= 0

\* the case of C3: r was validated for a buyer or admin on an existing
\* listing with quantity <= the quantity_available it read
C3_Case(r) ==
  /\ local[r] # << >>
  /\ local[r][1].user.user_type \in { "buyer", "admin" }
  /\ local[r][1].request.credit_id \in DOMAIN credits
  /\ local[r][1].request.quantity <= local[r][1].credit.quantity_available

C3_Effects(r) ==
  LET l == local[r][1]
      t == ledger'[Len(ledger')]
  IN  /\ resp'.op = "purchase" /\ resp'.status = 200
      /\ Len(ledger') = Len(ledger) + 1
      /\ SubSeq(ledger', 1, Len(ledger)) = ledger
      /\ t.credit_id = l.request.credit_id
      /\ t.buyer_id = l.user.user_id
      /\ t.quantity = l.request.quantity
      /\ t.status = "completed"
      /\ t.price_per_ton = l.credit.price_per_ton
      /\ DecrementedBy(credits, credits', l.request.credit_id,
                       l.request.quantity)

\* the callers who may purchase
PurchaserTokens == { "demo_buyer_token", "demo_admin_token" }

\* the statuses validation can answer in the current state
StatusesNow(token, credit_id, quantity) ==
  ValidateStatuses(token, credit_id, quantity, credits, CommitPending(pc))

C3_NeverRefused ==
  \A token \in PurchaserTokens, c \in DOMAIN credits, q \in Quantities :
    q <= credits[c].quantity_available => StatusesNow(token, c, q) = { 0 }

C3_NotRefusedUnlessLocked ==
  \A token \in PurchaserTokens, c \in DOMAIN credits, q \in Quantities :
    q <= credits[c].quantity_available =>
      /\ StatusesNow(token, c, q) \subseteq { 0, 500 }
      /\ ~ CommitPending(pc) => StatusesNow(token, c, q) = { 0 }

\* C3 as claimed: a purchase by a buyer or admin of q <= quantity_available
\* of an existing listing is never refused and always completes with status
\* 200, one record appended with the caller's id, q, 'completed' and the
\* price read at call time, that listing decremented by q, no other changed.
C3_AlwaysSucceeds ==
  /\ [] C3_NeverRefused
  /\ [][ \A r \in Requests : (Completes(r) /\ C3_Case(r)) => C3_Effects(r) ]_vars

\* C3 amended: such a purchase is never answered 400, 401, 403 or 404, and
\* it either completes with status 200 and exactly those effects, or -- when
\* a database call raises, the lookup refused while a commit is pending or
\* the write itself -- is answered 500 with no change to the tables.
C3_SucceedsOrFailsCleanly ==
  /\ [] C3_NotRefusedUnlessLocked
  /\ [][ /\ \A r \in Requests : (Completes(r) /\ C3_Case(r)) =>
             \/ C3_Effects(r)
             \/ /\ resp'.op = "purchase" /\ resp'.status = 500
                /\ UNCHANGED << ledger, credits >>
         /\ (resp'.op = "purchase" /\ resp'.status = 500) =>
              UNCHANGED << ledger, credits >> ]_vars

C3_Witness ==
  /\ resp.op = "purchase" /\ resp.status = 200
  /\ Len(ledger) = 2
  /\ ledger[2].credit_id = "c1" /\ ledger[2].quantity = 1

\* C4 as claimed: a purchase by a caller who may purchase, for more than
\* the quantity_available of an existing listing, is always answered 400,
\* and a step that answers 400 changes no listing and no ledger record.
C4_AlwaysInsufficientInventory ==
  /\ [] (\A token \in PurchaserTokens, c \in DOMAIN credits,
            q \in Quantities :
              q > credits[c].quantity_available =>
                StatusesNow(token, c, q) = { 400 })
  /\ [][ (resp'.op = "purchase" /\ resp'.status = 400) =>
           UNCHANGED << ledger, credits >> ]_vars

\* C4 amended: such a purchase is answered 400, or 500 when the lookup of
\* the listing is refused while a commit is pending; it is never accepted,
\* and a step that answers 400 or 500 changes no listing and no record.
C4_InsufficientOrLocked ==
  /\ [] (\A token \in PurchaserTokens, c \in DOMAIN credits,
            q \in Quantities :
              q > credits[c].quantity_available =>
                /\ StatusesNow(token, c, q) \subseteq { 400, 500 }
                /\ ~ CommitPending(pc) => StatusesNow(token, c, q) = { 400 })
  /\ [][ (resp'.op = "purchase" /\ resp'.status \in { 400, 500 }) =>
           UNCHANGED << ledger, credits >> ]_vars

C4_Witness ==
  /\ resp.op = "purchase" /\ resp.status = 400
  /\ Len(ledger) = 1 /\ ledger[1].quantity = 1
  /\ credits["c1"].quantity_available = 0

\* C5: a purchase with the public token is answered 403 and one with an
\* unrecognized token 401, whatever the credit id and quantity; neither
\* changes a listing or the ledger; every ledger record carries the subject
\* id of the buyer or of the admin identity.
C5_OnlyBuyersPurchase ==
  /\ [] /\ \A c \in CreditIdInputs, q \in Quantities :
             /\ StatusesNow("demo_public_token", c, q) = { 403 }
             /\ \A token \in Tokens \ { "demo_public_token",
                    "demo_buyer_token", "demo_admin_token" } :
                  StatusesNow(token, c, q) = { 401 }
        /\ \A i \in 1..Len(ledger) :
             ledger[i].buyer_id \in { "buyer_001", "admin_001" }
  /\ [][ (resp'.op = "purchase" /\ resp'.status \in { 401, 403 }) =>
           UNCHANGED << ledger, credits >> ]_vars

C5_Witness ==
  /\ resp.op = "purchase" /\ resp.status = 403
  /\ Len(ledger) = 1

\* a public entry that shows record t and nothing else of it
ShowsOnly(entry, t) ==
  /\ DOMAIN entry = { "transaction_date", "credit_type", "quantity",
                      "price_per_ton" }
  /\ entry.transaction_date = t.transaction_date
  /\ entry.quantity = t.quantity
  /\ entry.price_per_ton = t.price_per_ton
  /\ entry.credit_type = IF t.credit_id \in DOMAIN credits
                         THEN credits[t.credit_id].credit_type
                         ELSE "Unknown"

\* C6: the transaction history returned to an admin is the ledger itself;
\* to a buyer, exactly the records whose buyer_id is the caller's id; to a
\* public caller, one entry per record that was in the ledger when the
\* handler read it, with only transaction_date, credit_type, quantity and
\* price_per_ton.
C6_RoleScopedHistory ==
  /\ [] /\ (resp.op = "transactions" /\ resp.status = 200) =>
             /\ resp.token = "demo_admin_token" => resp.body = ledger
             /\ resp.token = "demo_buyer_token" =>
                  resp.body = SelectSeq(ledger,
                                LAMBDA t : t.buyer_id = "buyer_001")
             /\ resp.token = "demo_public_token" =>
                  /\ Len(resp.body) <= Len(ledger)
                  /\ \A i \in 1..Len(resp.body) :
                       ShowsOnly(resp.body[i], ledger[i])
        /\ view # << >> =>
             /\ Len(view[1].transactions) <= Len(ledger)
             /\ view[1].transactions
                  = SubSeq(ledger, 1, Len(view[1].transactions))
  /\ [][ /\ (view = << >> /\ view' # << >>) =>
              view'[1].transactions = ledger
         /\ (view # << >> /\ view' = << >> /\ resp'.status = 200) =>
              Len(resp'.body) = Len(view[1].transactions) ]_vars

C6_Witness ==
  /\ resp.op = "transactions" /\ resp.status = 200
  /\ resp.token = "demo_buyer_token"
  /\ Len(resp.body) = 1 /\ Len(ledger) = 2
  /\ \E i \in 1..2 : ledger[i].buyer_id = "admin_001"

\* C7: every ledger record has a quantity >= 1.
C7_PositiveQuantities ==
  \A i \in 1..Len(ledger) : ledger[i].quantity >= 1

\* C8: the transaction_hash of every ledger record is the digest of the
\* concatenation, without separators, of that record's credit_id, buyer_id,
\* quantity in decimal and transaction_date; records that agree on these
\* four fields carry the same digest.
C8_HashOfOwnFields ==
  /\ \A i \in 1..Len(ledger) :
       ledger[i].transaction_hash =
         Sha256Hex(ledger[i].credit_id \o ledger[i].buyer_id
                   \o DecimalStr(ledger[i].quantity)
                   \o ledger[i].transaction_date)
  /\ \A i, j \in 1..Len(ledger) :
       ( /\ ledger[i].credit_id = ledger[j].credit_id
         /\ ledger[i].buyer_id = ledger[j].buyer_id
         /\ ledger[i].quantity = ledger[j].quantity
         /\ ledger[i].transaction_date = ledger[j].transaction_date )
       => ledger[i].transaction_hash = ledger[j].transaction_hash

C8_Witness ==
  /\ Len(ledger) = 2
  /\ ledger[1].credit_id = "c1" /\ ledger[2].credit_id = "c1"
  /\ ledger[1].buyer_id = "buyer_001" /\ ledger[2].buyer_id = "buyer_001"
  /\ ledger[1].quantity = 1 /\ ledger[2].quantity = -1
  /\ ledger[1].transaction_date = "2024-01-01T00:00:00.000250"
  /\ ledger[2].transaction_date = "2024-01-01T00:00:00"
  /\ ledger[1].transaction_hash
       = Sha256Hex("c1buyer_00112024-01-01T00:00:00.000250")
  /\ ledger[2].transaction_hash
       = Sha256Hex("c1buyer_001-12024-01-01T00:00:00")

\* C9: the ledger only grows at its end: a step that answers a purchase with
\* 200 appends exactly one record, every other step leaves the ledger as it
\* is, and no record already present is changed or removed.
C9_AppendOnly ==
  [][ /\ Len(ledger') >= Len(ledger)
      /\ SubSeq(ledger', 1, Len(ledger)) = ledger
      /\ IF resp'.op = "purchase" /\ resp'.status = 200
         THEN Len(ledger') = Len(ledger) + 1
         ELSE ledger' = ledger ]_vars

C9_Witness ==
  /\ Len(ledger) = 2
  /\ resp.op = "purchase" /\ resp.status = 200

\* C10: for each listing, quantity_available plus the quantities recorded
\* against it equals its initial quantity_available, and the total available
\* amount plus all recorded quantities equals the initial catalog total.
C10_InventoryConserved ==
  /\ \A c \in DOMAIN credits :
       credits[c].quantity_available + SumFor(ledger, c)
         = InitialCatalog[c].quantity_available
  /\ get_total_available_amount(credits) + SumQuantity(ledger)
       = get_total_available_amount(InitialCatalog)

====
